---------------------------- MODULE Spec2Model ----------------------------
(***************************************************************************)
(* A model of lib/datasets/air_quality.py (class AirQuality):              *)
(*   - load / training_mask : observation, evaluation and training masks   *)
(*   - splitter             : month-aware train / validation / test split  *)
(*   - get_similarity       : thresholded, symmetrised adjacency matrix    *)
(* Matrices are functions [row -> [column -> value]] with 0-based indices, *)
(* index arrays are sequences (numpy arrays keep order and duplicates).    *)
(***************************************************************************)
EXTENDS Integers, Sequences, FiniteSets, TLC

VARIABLES
    pc,              \* position of the modelled call sequence
    \* ---- load / training_mask ----
    frame,           \* df.values: a reading, or NaN where the value is missing
    small,           \* load(small=...): TRUE when load_raw supplies eval_mask
    baseline,        \* the eval mask load_raw supplies / infer_mask produces
    masked_sensors,  \* [isNone, idx]: None, or the list of sensor columns
    mask,            \* self._mask
    eval_mask,       \* self.eval_mask (None until load has run)
    tmask,           \* the value the training_mask property returned
    \* ---- splitter ----
    dataset,         \* [len, start, per, first, horizon]: the windowed dataset
    val_len,         \* [num, den]: the val_len argument num/den
    in_sample,       \* the in_sample argument
    window,          \* the window argument
    split,           \* what splitter returned (or that it raised)
    \* ---- get_similarity ----
    dist,            \* self.dist
    thr,             \* the thr argument, as the largest squared distance kept
    include_self,    \* the include_self argument
    force_symmetric, \* the force_symmetric argument
    adj              \* the matrix get_similarity returned

maskVars  == <<frame, small, baseline, masked_sensors, mask, eval_mask, tmask>>
splitVars == <<dataset, val_len, in_sample, window, split>>
simVars   == <<dist, thr, include_self, force_symmetric, adj>>
vars      == <<pc, maskVars, splitVars, simVars>>

\* None: the empty function stands for Python's None.
None == <<>>
IsNone(v) == DOMAIN v = {}

Min(S) == CHOOSE x \in S : \A y \in S : x <= y

(***************************************************************************)
(*                      load  and  training_mask                           *)
(***************************************************************************)

\* Shape of the frame and size of the enumerated inputs.
NumRows == 2
NumCols == 6
MaxMissing == 2
MaxMasked == 2

Rows == 0 .. NumRows - 1
Cols == 0 .. NumCols - 1
Cells == Rows \X Cols

\* The float NaN of a missing reading; readings themselves are >= 0.
NaN == -1
IsNaN(v) == v = NaN

\* uint8 arithmetic.
Uint8 == 256
ToUint8(v) == v % Uint8

RECURSIVE BitAndBits(_, _, _)
BitAndBits(a, b, n) ==
    IF n = 0 THEN 0
    ELSE (a % 2) * (b % 2) + 2 * BitAndBits(a \div 2, b \div 2, n - 1)

\* a & b on uint8 operands.
BitAnd(a, b) == BitAndBits(a, b, 8)

\* Mutant: a reading of 0 taken for a missing one (truthiness, not isnan).
ObservationMask_Truthy(df) ==
    [t \in DOMAIN df |->
        [c \in DOMAIN df[t] |-> IF ~IsNaN(df[t][c]) /\ df[t][c] # 0 THEN 1 ELSE 0]]

\* mask = (~np.isnan(df.values)).astype("uint8")
ObservationMask(df) ==
    [t \in DOMAIN df |-> [c \in DOMAIN df[t] |-> IF ~IsNaN(df[t][c]) THEN 1 ELSE 0]]

\* eval_mask as load has it at line 49: the one load_raw supplied, or else the
\* one infer_mask derived from the frame, cast to uint8.
BaselineEvalMask(raw, inferred) ==
    LET e == IF IsNone(raw) THEN inferred ELSE raw
    IN  [t \in DOMAIN e |-> [c \in DOMAIN e[t] |-> ToUint8(e[t][c])]]

\* The column stride of eval_mask[:, 0::5].
AnchorStride == 5

\* Mutant: the stride and the swap applied on top of the baseline mask
\* instead of on zeros.
SuperresolutionOverride_KeepBaseline(e) ==
    [t \in DOMAIN e |->
        [c \in DOMAIN e[t] |->
            IF c % AnchorStride = 0 THEN 0 ELSE (IF e[t][c] = 0 THEN 1 ELSE 0)]]

\* Lines 55-65: zeros of the same shape, ones on columns 0::5, then the zeros
\* and the ones (both located before either assignment) swapped.
SuperresolutionOverride(e) ==
    LET zeros   == [t \in DOMAIN e |-> [c \in DOMAIN e[t] |-> 0]]
        strided == [t \in DOMAIN e |->
                      [c \in DOMAIN e[t] |->
                         IF c % AnchorStride = 0 THEN 1 ELSE zeros[t][c]]]
        where_0 == {tc \in Cells : strided[tc[1]][tc[2]] = 0}
        where_1 == {tc \in Cells : strided[tc[1]][tc[2]] = 1}
        set1    == [t \in DOMAIN e |->
                      [c \in DOMAIN e[t] |->
                         IF <<t, c>> \in where_0 THEN 1 ELSE strided[t][c]]]
        set0    == [t \in DOMAIN e |->
                      [c \in DOMAIN e[t] |->
                         IF <<t, c>> \in where_1 THEN 0 ELSE set1[t][c]]]
    IN  [t \in DOMAIN e |-> [c \in DOMAIN e[t] |-> ToUint8(set0[t][c])]]

\* Mutant: the masked columns set to 1 everywhere, observed or not.
MaskSensors_AllOnes(e, m, ms) ==
    IF ms.isNone THEN e
    ELSE [t \in DOMAIN e |-> [c \in DOMAIN e[t] |-> IF c \in ms.idx THEN 1 ELSE e[t][c]]]

\* Lines 69-70: eval_mask[:, masked_sensors] = np.where(mask[:, masked_sensors], 1, 0)
MaskSensors(e, m, ms) ==
    IF ms.isNone THEN e
    ELSE [t \in DOMAIN e |->
            [c \in DOMAIN e[t] |->
               IF c \in ms.idx THEN (IF m[t][c] # 0 THEN 1 ELSE 0) ELSE e[t][c]]]

\* The eval mask load stores in self.eval_mask.
LoadEvalMask(df, raw, inferred, ms) ==
    MaskSensors(SuperresolutionOverride(BaselineEvalMask(raw, inferred)),
                ObservationMask(df), ms)

\* Mutant: the complement forgotten, self._mask & self.eval_mask.
TrainingMaskOf_NoComplement(m, e) ==
    IF IsNone(e) THEN m
    ELSE [t \in DOMAIN m |-> [c \in DOMAIN m[t] |-> BitAnd(m[t][c], e[t][c])]]

\* training_mask: self._mask if self.eval_mask is None else
\*                (self._mask & (1 - self.eval_mask))
TrainingMaskOf(m, e) ==
    IF IsNone(e) THEN m
    ELSE [t \in DOMAIN m |->
            [c \in DOMAIN m[t] |-> BitAnd(m[t][c], ToUint8(1 - e[t][c]))]]

\* ---- the inputs ----

\* A reading of the sensor; 0 is a reading like any other.
Reading(t, c) == ((t + c) % 3) * 10

FrameMissing(missing) ==
    [t \in Rows |-> [c \in Cols |-> IF <<t, c>> \in missing THEN NaN ELSE Reading(t, c)]]

Frames == {FrameMissing(ms) : ms \in {s \in SUBSET Cells : Cardinality(s) <= MaxMissing}}

\* Evaluation masks a file may hold or infer_mask may produce for a frame:
\* nothing held out, everything held out, the observed cells, or the cells
\* whose next reading is missing.
BaselineMasks(df) ==
    { [t \in Rows |-> [c \in Cols |-> 0]],
      [t \in Rows |-> [c \in Cols |-> 1]],
      ObservationMask(df),
      [t \in Rows |-> [c \in Cols |->
          IF ~IsNaN(df[t][c]) /\ IsNaN(df[(t + 1) % NumRows][c]) THEN 1 ELSE 0]] }

MaskedSensorArgs ==
    {[isNone |-> TRUE, idx |-> {}]} \cup
    {[isNone |-> FALSE, idx |-> s] : s \in {x \in SUBSET Cols : Cardinality(x) <= MaxMasked}}

\* The mask variables of an instance whose masks are not under study.
IdleMask == <<None, FALSE, None, [isNone |-> TRUE, idx |-> {}], None, None, None>>


\* __init__ -> load: computes and stores both masks.
Load ==
    /\ pc = "new"
    /\ LET raw      == IF small THEN baseline ELSE None   \* load_raw(small)[2]
           inferred == baseline                           \* infer_mask(df, ...)
       IN  /\ mask' = ObservationMask(frame)
           /\ eval_mask' = LoadEvalMask(frame, raw, inferred, masked_sensors)
    /\ pc' = "loaded"
    /\ UNCHANGED <<frame, small, baseline, masked_sensors, tmask>>
    /\ UNCHANGED <<splitVars, simVars>>

\* A read of the training_mask property.
TrainingMask ==
    /\ pc = "loaded"
    /\ tmask' = TrainingMaskOf(mask, eval_mask)
    /\ pc' = "read"
    /\ UNCHANGED <<frame, small, baseline, masked_sensors, mask, eval_mask>>
    /\ UNCHANGED <<splitVars, simVars>>

(***************************************************************************)
(*                               splitter                                  *)
(***************************************************************************)

\* Sizes of the enumerated datasets and arguments.
MaxLen == 14
MaxPerMonth == 2
MaxHorizon == 2
MaxWindow == 2
MaxValLen == 9

\* self.test_months = [3, 6, 9, 12]
test_months == <<3, 6, 9, 12>>

SeqToSet(s) == {s[i] : i \in DOMAIN s}

\* np.arange(a, b): empty when a >= b.
Arange(a, b) == [i \in 1 .. (IF b > a THEN b - a ELSE 0) |-> a + i - 1]

\* idxs[keep], for a boolean array keep over the positions of idxs.
RECURSIVE Compress(_, _)
Compress(idxs, keep) ==
    IF idxs = <<>> THEN <<>>
    ELSE (IF keep[1] THEN <<Head(idxs)>> ELSE <<>>) \o Compress(Tail(idxs), Tail(keep))

RECURSIVE Concatenate(_)
Concatenate(seqs) ==
    IF seqs = <<>> THEN <<>> ELSE Head(seqs) \o Concatenate(Tail(seqs))

\* The calendar month (1..12) of sample i's target window: the series starts
\* in month ds.start with ds.first samples of it left, and every later month
\* holds ds.per samples.
MonthOf(ds, i) == ((ds.start - 1 + ((i + ds.per - ds.first) \div ds.per)) % 12) + 1

\* disjoint_months(dataset, months, synch_mode="horizon"): the samples outside
\* and inside the given months, each in increasing order.
DisjointMonths(ds, months) ==
    LET idxs == Arange(0, ds.len)
        inm  == [k \in DOMAIN idxs |-> MonthOf(ds, idxs[k]) \in months]
    IN  <<Compress(idxs, [k \in DOMAIN idxs |-> ~inm[k]]), Compress(idxs, inm)>>

\* dataset.overlapping_indices(idxs1, idxs2, synch_mode="horizon", as_mask=True)[0]:
\* for each sample of idxs1, whether its target window (ds.horizon consecutive
\* steps) shares a step with the target window of some sample of idxs2.
OverlappingIndices(ds, idxs1, idxs2) ==
    [k \in DOMAIN idxs1 |->
        \E j \in DOMAIN idxs2 :
            /\ idxs1[k] - idxs2[j] < ds.horizon
            /\ idxs2[j] - idxs1[k] < ds.horizon]

\* int(x) for x = a / b, b > 0: truncation towards zero.
IntTrunc(a, b) == IF a >= 0 THEN a \div b ELSE -((-a) \div b)

\* Line 90: (int(val_len * len(nontest_idxs)) if val_len < 1 else val_len)
\*          // len(self.test_months), for val_len = vl.num / vl.den.
ValLenPerMonth(vl, nNontest) ==
    IF vl.num < vl.den
    THEN IntTrunc(vl.num * nNontest, vl.den) \div Len(test_months)
    ELSE vl.num \div (vl.den * Len(test_months))

\* np.diff
Diff(s) == [i \in 1 .. (IF Len(s) > 0 THEN Len(s) - 1 ELSE 0) |-> s[i + 1] - s[i]]

\* Line 93: test_idxs[1:][np.flatnonzero(delta_idxs > delta_idxs.min())]
GapStarts(test_idxs) ==
    LET delta_idxs == Diff(test_idxs)
        dmin       == Min(SeqToSet(delta_idxs))
    IN  Compress(Tail(test_idxs), [i \in DOMAIN delta_idxs |-> delta_idxs[i] > dmin])

\* Lines 92-95: the boundary list; the first test index is inserted in front
\* when fewer boundaries than test months were found.
EndMonthIdxs(test_idxs) ==
    LET end_month_idxs == GapStarts(test_idxs)
    IN  IF Len(end_month_idxs) < Len(test_months)
        THEN <<test_idxs[1]>> \o end_month_idxs
        ELSE end_month_idxs

\* Lines 97-98: the windows before each boundary, shifted by window, modulo N.
ValIdxs(end_month_idxs, L, w, n) ==
    LET month_val_idxs ==
            [k \in DOMAIN end_month_idxs |->
                LET r == Arange(end_month_idxs[k] - L, end_month_idxs[k])
                IN  [i \in DOMAIN r |-> r[i] - w]]
        cat == Concatenate(month_val_idxs)
    IN  [i \in DOMAIN cat |-> cat[i] % n]

\* Mutant: the overlapping indices left in the training set.
TrainIdxs_NoRemoval(nontest_idxs, ovl_idxs) == nontest_idxs

\* Line 101: train_idxs = nontest_idxs[~ovl_idxs]
TrainIdxs(nontest_idxs, ovl_idxs) ==
    Compress(nontest_idxs, [k \in DOMAIN ovl_idxs |-> ~ovl_idxs[k]])

\* Line 86: val_months = [(m - 1) % 12 for m in self.test_months]
ValMonths == {(test_months[k] - 1) % 12 : k \in DOMAIN test_months}

\* Mutant: the test samples excluded from the in-sample training set.
InSampleTrain_NonTest(ds) == DisjointMonths(ds, SeqToSet(test_months))[1]

\* Line 85: train_idxs = np.arange(len(dataset))
InSampleTrain(ds) == Arange(0, ds.len)

Raised(e) == [status |-> e, train |-> <<>>, val |-> <<>>, test |-> <<>>,
              end_month_idxs |-> <<>>]

\* splitter(dataset, val_len, in_sample, window): the returned
\* [train_idxs, val_idxs, test_idxs], or the exception raised.
Splitter(ds, vl, ins, w) ==
    LET dm           == DisjointMonths(ds, SeqToSet(test_months))
        nontest_idxs == dm[1]
        test_idxs    == dm[2]
    IN  IF ins
        THEN [status |-> "ok",
              train  |-> InSampleTrain(ds),
              val    |-> DisjointMonths(ds, ValMonths)[2],
              test   |-> test_idxs,
              end_month_idxs |-> <<>>]
        ELSE IF Len(test_idxs) < 2
        THEN Raised("ValueError")    \* delta_idxs.min() of an empty array
        ELSE LET L    == ValLenPerMonth(vl, Len(nontest_idxs))
                 ends == EndMonthIdxs(test_idxs)
                 vidx == ValIdxs(ends, L, w, ds.len)
                 ovl  == OverlappingIndices(ds, nontest_idxs, vidx)
             IN  [status |-> "ok",
                  train  |-> TrainIdxs(nontest_idxs, ovl),
                  val    |-> vidx,
                  test   |-> test_idxs,
                  end_month_idxs |-> ends]

\* ---- the inputs ----

Datasets ==
    {ds \in {[len |-> n, start |-> m, per |-> p, first |-> f, horizon |-> h] :
                n \in 1 .. MaxLen, m \in 1 .. 12, p \in 1 .. MaxPerMonth,
                f \in 1 .. MaxPerMonth, h \in 1 .. MaxHorizon} :
        ds.first <= ds.per}

\* val_len as a fraction below 1 (in quarters, zero and negative included)
\* or as an absolute count.
ValLens ==
    {[num |-> q, den |-> 4] : q \in -2 .. 3} \cup
    {[num |-> k, den |-> 1] : k \in 1 .. MaxValLen}

NoSplit == Raised("none")

\* The splitter variables of an instance whose split is not under study.
IdleSplit ==
    <<[len |-> 0, start |-> 1, per |-> 1, first |-> 1, horizon |-> 1],
      [num |-> 1, den |-> 1], FALSE, 0, NoSplit>>

\* A call of splitter with in_sample=False.
SplitOutOfSample ==
    /\ pc = "dataset" /\ ~in_sample
    /\ split' = Splitter(dataset, val_len, FALSE, window)
    /\ pc' = "split"
    /\ UNCHANGED <<dataset, val_len, in_sample, window>>
    /\ UNCHANGED <<maskVars, simVars>>

\* A call of splitter with in_sample=True.
SplitInSample ==
    /\ pc = "dataset" /\ in_sample
    /\ split' = Splitter(dataset, val_len, TRUE, window)
    /\ pc' = "split"
    /\ UNCHANGED <<dataset, val_len, in_sample, window>>
    /\ UNCHANGED <<maskVars, simVars>>

(***************************************************************************)
(*                            get_similarity                               *)
(***************************************************************************)

\* Sizes of the enumerated station networks and thresholds.
NumStations == 3
MaxPos == 3
MaxSkew == 1
MaxThr == 3

Stations == 0 .. NumStations - 1

\* The reference sub-block self.dist[:36, :36].
RefBlock == 36

RECURSIVE SumOver(_, _)
SumOver(S, f) ==
    IF S = {} THEN 0
    ELSE LET x == CHOOSE y \in S : TRUE IN f[x] + SumOver(S \ {x}, f)

\* theta = np.std(self.dist[:36, :36]), kept exact as the fraction
\* theta^2 = num / den with num = M * sum(d^2) - sum(d)^2 and den = M^2,
\* M the number of entries of the sub-block.
Theta2(d) ==
    LET sub == {i \in DOMAIN d : i < RefBlock}
        blk == sub \X sub
        M   == Cardinality(blk)
        s1  == SumOver(blk, [ij \in blk |-> d[ij[1]][ij[2]]])
        s2  == SumOver(blk, [ij \in blk |-> d[ij[1]][ij[2]] * d[ij[1]][ij[2]]])
    IN  [num |-> M * s2 - s1 * s1, den |-> M * M]

\* A weight is 0.0 or exp(-x / theta^2) for the squared distance x; theta is
\* the same for every entry of one matrix, so two weights are equal iff
\* their records are, and a smaller x is a larger weight.
ZeroWeight == [pos |-> FALSE, x |-> 0]
GaussWeight(x) == [pos |-> TRUE, x |-> x]
WeightLeq(a, b) == ~a.pos \/ (b.pos /\ b.x <= a.x)

\* np.maximum on two weights.
WeightMax(a, b) == IF WeightLeq(a, b) THEN b ELSE a

\* thresholded_gaussian_kernel(x, theta, threshold): exp(-(x / theta)^2), set
\* to 0 where it is below the threshold. The threshold is exp(-k^2), so a
\* weight stays iff (d / theta)^2 <= k^2.
ThresholdedGaussianKernel(d, theta2, k) ==
    [i \in DOMAIN d |->
        [j \in DOMAIN d[i] |->
            IF d[i][j] * d[i][j] * theta2.den <= k * k * theta2.num
            THEN GaussWeight(d[i][j] * d[i][j])
            ELSE ZeroWeight]]

\* Line 108: adj[np.diag_indices_from(adj)] = 0.0
ZeroDiagonal(a) ==
    [i \in DOMAIN a |-> [j \in DOMAIN a[i] |-> IF i = j THEN ZeroWeight ELSE a[i][j]]]

\* Mutant: the element-wise minimum taken instead of the maximum.
Symmetrize_Minimum(a) ==
    [i \in DOMAIN a |->
        [j \in DOMAIN a[i] |-> IF WeightLeq(a[i][j], a[j][i]) THEN a[i][j] ELSE a[j][i]]]

\* Line 110: np.maximum.reduce([adj, adj.T])
Symmetrize(a) ==
    [i \in DOMAIN a |-> [j \in DOMAIN a[i] |-> WeightMax(a[i][j], a[j][i])]]

\* get_similarity(thr, include_self, force_symmetric), dense result.
GetSimilarityOf(d, k, incl, sym) ==
    LET theta2 == Theta2(d)
        a0     == ThresholdedGaussianKernel(d, theta2, k)
        a1     == IF ~incl THEN ZeroDiagonal(a0) ELSE a0
    IN  IF sym THEN Symmetrize(a1) ELSE a1

\* ---- the inputs ----

Abs(x) == IF x < 0 THEN -x ELSE x

\* Distances of stations at distinct positions on a line; the entries above
\* the diagonal may differ from their transposed ones by a skew.
DistOf(p, skew) ==
    [i \in Stations |->
        [j \in Stations |-> Abs(p[i] - p[j]) + (IF i < j THEN skew ELSE 0)]]

Dists ==
    {DistOf(p, k) :
        p \in {q \in [Stations -> 0 .. MaxPos] :
                  \A i, j \in Stations : i # j => q[i] # q[j]},
        k \in 0 .. MaxSkew}

\* The similarity variables of an instance whose adjacency is not under study.
IdleSim == <<None, 0, FALSE, FALSE, None>>

\* A call of get_similarity.
GetSimilarity ==
    /\ pc = "dist"
    /\ adj' = GetSimilarityOf(dist, thr, include_self, force_symmetric)
    /\ pc' = "similarity"
    /\ UNCHANGED <<dist, thr, include_self, force_symmetric>>
    /\ UNCHANGED <<maskVars, splitVars>>

(***************************************************************************)
(*                           specifications                                *)
(***************************************************************************)

\* The state after construction, before the operation under study: a frame
\* about to be loaded, a dataset about to be split, or a distance matrix about
\* to be turned into an adjacency matrix.
InitMask ==
    /\ pc = "new"
    /\ frame \in Frames
    /\ small \in BOOLEAN
    /\ baseline \in BaselineMasks(frame)
    /\ masked_sensors \in MaskedSensorArgs
    /\ mask = None /\ eval_mask = None /\ tmask = None
    /\ dataset = IdleSplit[1] /\ val_len = IdleSplit[2] /\ in_sample = IdleSplit[3]
    /\ window = IdleSplit[4] /\ split = IdleSplit[5]
    /\ dist = IdleSim[1] /\ thr = IdleSim[2] /\ include_self = IdleSim[3]
    /\ force_symmetric = IdleSim[4] /\ adj = IdleSim[5]

InitSplit ==
    /\ pc = "dataset"
    /\ dataset \in Datasets
    /\ val_len \in ValLens
    /\ in_sample \in BOOLEAN
    /\ window \in 0 .. MaxWindow
    /\ split = NoSplit
    /\ frame = IdleMask[1] /\ small = IdleMask[2] /\ baseline = IdleMask[3]
    /\ masked_sensors = IdleMask[4]
    /\ mask = IdleMask[5] /\ eval_mask = IdleMask[6] /\ tmask = IdleMask[7]
    /\ dist = IdleSim[1] /\ thr = IdleSim[2] /\ include_self = IdleSim[3]
    /\ force_symmetric = IdleSim[4] /\ adj = IdleSim[5]

InitSim ==
    /\ pc = "dist"
    /\ dist \in Dists
    /\ thr \in 0 .. MaxThr
    /\ include_self \in BOOLEAN
    /\ force_symmetric \in BOOLEAN
    /\ adj = None
    /\ frame = IdleMask[1] /\ small = IdleMask[2] /\ baseline = IdleMask[3]
    /\ masked_sensors = IdleMask[4]
    /\ mask = IdleMask[5] /\ eval_mask = IdleMask[6] /\ tmask = IdleMask[7]
    /\ dataset = IdleSplit[1] /\ val_len = IdleSplit[2] /\ in_sample = IdleSplit[3]
    /\ window = IdleSplit[4] /\ split = IdleSplit[5]

Init == InitMask \/ InitSplit \/ InitSim

Next ==
    \/ Load
    \/ TrainingMask
    \/ SplitOutOfSample
    \/ SplitInSample
    \/ GetSimilarity

Spec == Init /\ [][Next]_vars

\* The mask builder alone.
NextMask == Load \/ TrainingMask
SpecMask == InitMask /\ [][NextMask]_vars

\* The splitter alone.
NextSplit == SplitOutOfSample \/ SplitInSample
SpecSplit == InitSplit /\ [][NextSplit]_vars

\* The similarity builder alone.
NextSim == GetSimilarity
SpecSim == InitSim /\ [][NextSim]_vars

(***************************************************************************)
(*                      properties of the mask builder                     *)
(***************************************************************************)

Loaded == pc \in {"loaded", "read"}
NoMaskedSensors == masked_sensors.isNone \/ masked_sensors.idx = {}
IsAnchor(c) == c % 5 = 0
IsMasked(c) == ~masked_sensors.isNone /\ c \in masked_sensors.idx

\* C1: the training mask a loaded dataset returns is, cell by cell, the
\* observation mask AND NOT the evaluation mask: it is 1 exactly where mask
\* is 1 and eval_mask is 0, and every entry is 0 or 1.
C1_TrainingMaskIsObservedAndNotEval ==
    pc = "read" =>
        \A t \in Rows, c \in Cols :
            /\ tmask[t][c] \in {0, 1}
            /\ tmask[t][c] = 1 <=> (mask[t][c] = 1 /\ eval_mask[t][c] = 0)

\* A read training mask with a cell observed and held out, a cell observed
\* and kept, and a missing cell.
C1_Witness ==
    /\ pc = "read"
    /\ \E t \in Rows, c \in Cols : mask[t][c] = 1 /\ eval_mask[t][c] = 1 /\ tmask[t][c] = 0
    /\ \E t \in Rows, c \in Cols : mask[t][c] = 1 /\ eval_mask[t][c] = 0 /\ tmask[t][c] = 1
    /\ \E t \in Rows, c \in Cols : mask[t][c] = 0 /\ eval_mask[t][c] = 0 /\ tmask[t][c] = 0

\* C2: without masked sensors the evaluation mask after load is 0 on every
\* column whose index is a multiple of 5 and 1 on every other column, at
\* every timestamp, whatever the baseline mask was.
C2_EvalMaskIsAnchorComplement ==
    (Loaded /\ NoMaskedSensors) =>
        \A t \in Rows, c \in Cols : eval_mask[t][c] = (IF IsAnchor(c) THEN 0 ELSE 1)

\* A load without masked sensors whose supplied baseline held out an anchor
\* cell and did not hold out a non-anchor cell.
C2_Witness ==
    /\ Loaded /\ masked_sensors.isNone /\ small
    /\ \E t \in Rows, c \in Cols : IsAnchor(c) /\ c > 0 /\ baseline[t][c] = 1
    /\ \E t \in Rows, c \in Cols : ~IsAnchor(c) /\ baseline[t][c] = 0

\* C3: after load every masked sensor's column of the evaluation mask equals
\* its column of the observation mask, anchor or not, and every other column
\* is as the every-5th-column override left it (0 on anchors, 1 elsewhere).
C3_MaskedSensorsEvalEqualsObserved ==
    (Loaded /\ ~masked_sensors.isNone) =>
        \A t \in Rows, c \in Cols :
            IF c \in masked_sensors.idx
            THEN eval_mask[t][c] = mask[t][c]
            ELSE eval_mask[t][c] = (IF IsAnchor(c) THEN 0 ELSE 1)

\* A load that masks an anchor and a non-anchor sensor, the non-anchor one
\* with a missing and an observed reading.
C3_Witness ==
    /\ Loaded
    /\ \E a, b \in Cols :
        /\ IsMasked(a) /\ IsMasked(b) /\ IsAnchor(a) /\ ~IsAnchor(b)
        /\ \E t, u \in Rows : IsNaN(frame[t][b]) /\ ~IsNaN(frame[u][b])
        /\ \E t \in Rows : ~IsNaN(frame[t][a])

\* C10: the training mask is 1 exactly on the observed cells of anchor
\* columns that are not masked sensors; and on non-anchor, non-masked columns
\* the evaluation mask is 1 also where the reading is missing.
C10_TrainingOnlyOnUnmaskedAnchors ==
    pc = "read" =>
        \A t \in Rows, c \in Cols :
            /\ tmask[t][c] = 1 <=> (IsAnchor(c) /\ ~IsMasked(c) /\ ~IsNaN(frame[t][c]))
            /\ (~IsAnchor(c) /\ ~IsMasked(c)) => eval_mask[t][c] = 1

\* A read training mask of a frame with a missing reading on a non-anchor,
\* non-masked column, a reading of 0 on an unmasked anchor, and a masked anchor.
C10_Witness ==
    /\ pc = "read"
    /\ \E t \in Rows, c \in Cols :
        ~IsAnchor(c) /\ ~IsMasked(c) /\ IsNaN(frame[t][c]) /\ eval_mask[t][c] = 1
    /\ \E t \in Rows, c \in Cols :
        IsAnchor(c) /\ ~IsMasked(c) /\ frame[t][c] = 0 /\ tmask[t][c] = 1
    /\ \E c \in Cols : IsAnchor(c) /\ IsMasked(c)

(***************************************************************************)
(*                       properties of the splitter                        *)
(***************************************************************************)

Returned == pc = "split" /\ split.status = "ok"
OutOfSample == Returned /\ ~in_sample
Train == SeqToSet(split.train)
Val == SeqToSet(split.val)
Test == SeqToSet(split.test)
Samples == 0 .. dataset.len - 1
InTestMonth(i) == MonthOf(dataset, i) \in {3, 6, 9, 12}
NonTest == {i \in Samples : ~InTestMonth(i)}

\* Two samples overlap when their target windows share a time step.
Overlap(i, j) == i - j < dataset.horizon /\ j - i < dataset.horizon

\* val_len is in (0, non-test count]: a positive fraction below 1, or a
\* count of at least 1 and at most the number of non-test samples.
ValLenInRange ==
    /\ val_len.num > 0
    /\ val_len.num >= val_len.den => val_len.num <= val_len.den * Cardinality(NonTest)

\* The first index of each contiguous block of test indices.
BlockStarts == {i \in Test : i - 1 \notin Test}

\* C4: in out-of-sample mode, for val_len in (0, non-test count] and any
\* window >= 0, the returned train, val and test index sets are pairwise
\* disjoint.
C4_SplitsPairwiseDisjoint ==
    (OutOfSample /\ ValLenInRange) =>
        /\ Train \cap Test = {}
        /\ Train \cap Val = {}
        /\ Val \cap Test = {}

\* What holds of C4: train is disjoint from both other sets.
C4_TrainDisjointFromValAndTest ==
    OutOfSample => (Train \cap Test = {} /\ Train \cap Val = {})

C6_InSampleSplit ==
    (pc = "split" /\ in_sample) =>
        /\ split.status = "ok"
        /\ Len(split.train) = dataset.len
        /\ \A k \in 1 .. dataset.len : split.train[k] = k - 1
        /\ Test \subseteq Train
        /\ Val = {i \in Samples : MonthOf(dataset, i) \in {2, 5, 8, 11}}
        /\ Test = {i \in Samples : InTestMonth(i)}

\* An in-sample split with test, validation and other samples, called with a
\* window and a val_len that out-of-sample mode would use.
C6_Witness ==
    /\ pc = "split" /\ in_sample
    /\ Test # {} /\ Val # {} /\ Train \ (Test \cup Val) # {}
    /\ window > 0 /\ val_len.num > val_len.den

\* C7: in out-of-sample mode a val_len <= 0 makes splitter raise; it never
\* returns a partition.
C7_NonPositiveValLenRaises ==
    (pc = "split" /\ ~in_sample /\ val_len.num <= 0) => split.status # "ok"

\* C9: in out-of-sample mode the boundary list holds exactly the first index
\* of each contiguous block of test indices, once each.
C9_BoundariesAreBlockStarts ==
    OutOfSample =>
        /\ SeqToSet(split.end_month_idxs) = BlockStarts
        /\ Len(split.end_month_idxs) = Cardinality(BlockStarts)

(***************************************************************************)
(*                   properties of the similarity builder                  *)
(***************************************************************************)

\* The thresholded kernel of the distance matrix, before the diagonal and the
\* symmetry are dealt with.
Kernel == ThresholdedGaussianKernel(dist, Theta2(dist), thr)

=============================================================================
